---- MODULE Spec2Model ----
(***************************************************************************)
(* A model of tests/fixtures/echo_server.py: the line reader of main()     *)
(* (accumulate, parse the whole buffer, dispatch or keep or reset) and the *)
(* dispatcher EchoMCPServer.handle_request with its three tools.           *)
(*                                                                         *)
(* Values.  A JSON value, which json.loads turns into a Python value and   *)
(* json.dumps turns back, is a tagged record: JNull (Python None),         *)
(* JStr(s), JNum(n), JArr (the list []), JObj(f) (a dict, f a function     *)
(* from its keys to values).  A key that is absent is absent from          *)
(* DOMAIN f, which is not the same as a key that holds JNull.              *)
(*                                                                         *)
(* Text.  A line of input is a sequence of fragments, each with its length *)
(* in characters: whitespace (the line terminator included), junk (text    *)
(* that occurs in no JSON document), part i of k of the text of a document *)
(* cut between two tokens, and a piece of a document cut inside a string   *)
(* literal.  The buffer is the concatenation of the lines read.            *)
(*                                                                         *)
(* Not modelled: a failing write to the output stream, an input line that  *)
(* is not valid UTF-8, a document nested deeper than the interpreter's     *)
(* recursion limit, and the interruption signal of line 172.               *)
(***************************************************************************)
EXTENDS Integers, Sequences, FiniteSets, TLC

VARIABLES
    pc,          \* "reading": at the head of the loop of main(); "exited"
    buffer,      \* main()'s local `buffer`, a sequence of fragments
    output,      \* the lines printed on the output stream, oldest first
    stderr,      \* the lines written to the error stream
    exitStatus,  \* the process's exit status, NoStatus while it runs
    message_id,  \* EchoMCPServer.message_id
    env,         \* os.environ, a function from names to strings
    input,       \* history: one record per line readline() has returned
    dispatched,  \* history: the values handed to handle_request
    eof          \* history: readline() has returned the empty string

vars == <<pc, buffer, output, stderr, exitStatus, message_id, env, input,
          dispatched, eof>>

(***************************************************************************)
(* Bounds of the model.                                                    *)
(***************************************************************************)
MaxLines == 3

(***************************************************************************)
(* Program constants.                                                      *)
(***************************************************************************)
Ceiling == 10000
ParseErrorCode == -32700
NotFoundCode == -32601
InternalErrorCode == -32603
NoStatus == -1

(***************************************************************************)
(* JSON / Python values.                                                   *)
(***************************************************************************)
JNull == [t |-> "null"]
JArr == [t |-> "arr"]
JStr(s) == [t |-> "str", s |-> s]
JNum(n) == [t |-> "num", n |-> n]
JObj(f) == [t |-> "obj", f |-> f]
EmptyDict == <<>>

\* A number literal with an exponent, as it is spelled in a JSON text:
\* the digits of m, "e", the digits of x (15e-1 is 1.5).
JReal(m, x) == [t |-> "real", m |-> m, x |-> x]

\* Python floats: a finite one holds m * 10^x; the others are the infinities.
PyFloat(m, x) == [t |-> "float", m |-> m, x |-> x]
PyInf(negative) == [t |-> "inf", negative |-> negative]

\* sys.float_info: the largest finite float is below 10^(FloatMax10Exp + 1),
\* and a literal below 10^FloatMin10Exp is nearer to 0.0 than to the
\* smallest float above it.
FloatMax10Exp == 308
FloatMin10Exp == -324

IsDict(v) == v.t = "obj"
IsStr(v) == v.t = "str"

\* dict.get(key, default)
DictGet(d, key, default) == IF key \in DOMAIN d.f THEN d.f[key] ELSE default

\* type(v).__name__
PyTypeName(v) ==
    CASE v.t = "null" -> "NoneType"
      [] v.t = "str" -> "str"
      [] v.t = "num" -> "int"
      [] v.t = "arr" -> "list"
      [] v.t = "obj" -> "dict"

Digit(n) == <<"0", "1", "2", "3", "4", "5", "6", "7", "8", "9">>[n + 1]

RECURSIVE NatStr(_)
NatStr(n) == IF n < 10 THEN Digit(n) ELSE NatStr(n \div 10) \o Digit(n % 10)

\* str(n) of an int
IntStr(n) == IF n < 0 THEN "-" \o NatStr(-n) ELSE NatStr(n)

\* float(literal) as json.loads converts a number literal with an exponent:
\* a literal of at least 10^(FloatMax10Exp + 1) becomes an infinity, one
\* below 10^FloatMin10Exp becomes 0.0.  The literals of the model have a
\* mantissa of at most 15 digits and lie outside the two bands next to these
\* limits, where the conversion rounds.
ParseFloat(m, x) ==
    LET magnitude == Len(NatStr(IF m < 0 THEN -m ELSE m)) + x
    IN  IF m = 0 THEN PyFloat(0, 0)
        ELSE IF magnitude - 1 > FloatMax10Exp THEN PyInf(m < 0)
        ELSE IF magnitude <= FloatMin10Exp THEN PyFloat(0, 0)
        ELSE PyFloat(m, x)

\* line 156: the Python value json.loads makes of a JSON value.
RECURSIVE Loads(_)
Loads(v) ==
    CASE v.t = "real" -> ParseFloat(v.m, v.x)
      [] v.t = "obj" -> JObj([key \in DOMAIN v.f |-> Loads(v.f[key])])
      [] OTHER -> v

\* lines 24, 36: what json.dumps writes for a Python value.  An infinity is
\* written as the word Infinity or -Infinity, which is no JSON value.
RECURSIVE Dumps(_)
Dumps(v) ==
    CASE v.t = "float" -> JReal(v.m, v.x)
      [] v.t = "inf" -> [t |-> "word",
                         s |-> IF v.negative THEN "-Infinity" ELSE "Infinity"]
      [] v.t = "obj" -> JObj([key \in DOMAIN v.f |-> Dumps(v.f[key])])
      [] OTHER -> v

\* What an f-string makes of a value: a str as it is, None as "None", an int
\* in decimal, the empty list as "[]", the empty dict as "{}".
PyFormat(v) ==
    CASE v.t = "null" -> "None"
      [] v.t = "str" -> v.s
      [] v.t = "num" -> IntStr(v.n)
      [] v.t = "arr" -> "[]"
      [] v.t = "obj" /\ DOMAIN v.f = {} -> "{}"

\* str(e) of the AttributeError of v.get(...) on a value that is no dict
AttributeErrorText(v) == "'" \o PyTypeName(v) \o "' object has no attribute 'get'"

\* str(e) of the TypeError of os.environ.get(key) on a key that is no str
EnvironKeyErrorText(key) == "str expected, not " \o PyTypeName(key)

(***************************************************************************)
(* The outcome of a piece of code: it returns, it raises an Exception, or  *)
(* it raises SystemExit; `out` is what it has printed by then.             *)
(***************************************************************************)
Return(out) == [k |-> "return", out |-> out, code |-> NoStatus, msg |-> ""]
Raise(msg, out) == [k |-> "raise", out |-> out, code |-> NoStatus, msg |-> msg]
SysExit(code, out) == [k |-> "exit", out |-> out, code |-> code, msg |-> ""]

(***************************************************************************)
(* send_response, send_error: the dict that is serialised and printed.     *)
(***************************************************************************)
send_response(request_id, result) ==
    [jsonrpc |-> "2.0", id |-> Dumps(request_id), result |-> result]

send_error(request_id, code, message) ==
    [jsonrpc |-> "2.0", id |-> Dumps(request_id),
     error |-> [code |-> code, message |-> message]]

\* The response main() prints itself: it has no "id" key.
ParseErrorResponse ==
    [jsonrpc |-> "2.0",
     error |-> [code |-> ParseErrorCode, message |-> "Parse error"]]

ToolDescriptors ==
    << [name |-> "echo",
        description |-> "Echoes back the input message",
        inputSchema |-> [type |-> "object",
                         properties |-> [message |->
                             [type |-> "string",
                              description |-> "The message to echo"]],
                         required |-> <<"message">>]],
       [name |-> "ping",
        description |-> "Returns 'pong'",
        inputSchema |-> [type |-> "object", properties |-> EmptyDict]],
       [name |-> "get_env",
        description |-> "Get an environment variable",
        inputSchema |-> [type |-> "object",
                         properties |-> [name |->
                             [type |-> "string",
                              description |-> "Environment variable name"]],
                         required |-> <<"name">>]] >>

\* The advertisement without the ping tool.
InitializeResult_WithoutPing ==
    [protocolVersion |-> "1.0",
     serverInfo |-> [name |-> "echo-test-server-python", version |-> "1.0.0"],
     capabilities |-> [tools |-> [available |->
         SelectSeq(ToolDescriptors, LAMBDA tool : tool.name # "ping")]]]

\* lines 47-95
InitializeResult ==
    [protocolVersion |-> "1.0",
     serverInfo |-> [name |-> "echo-test-server-python", version |-> "1.0.0"],
     capabilities |-> [tools |-> [available |-> ToolDescriptors]]]

\* os.environ.get(key, default): a key that is no str raises TypeError.
EnvironGet(e, key, default) ==
    IF ~IsStr(key) THEN [raised |-> TRUE, value |-> EnvironKeyErrorText(key)]
    ELSE IF key.s \in DOMAIN e THEN [raised |-> FALSE, value |-> e[key.s]]
    ELSE [raised |-> FALSE, value |-> default]

\* The tool using the default prefix whatever the environment holds.
EchoTool_IgnoresEnvironment(request_id, args, e) ==
    IF ~IsDict(args) THEN Raise(AttributeErrorText(args), <<>>)
    ELSE LET message == DictGet(args, "message", JStr(""))
         IN  Return(<< send_response(request_id,
                         [output |-> "[ECHO]" \o " " \o PyFormat(message)]) >>)

\* lines 101-106
EchoTool(request_id, args, e) ==
    IF ~IsDict(args) THEN Raise(AttributeErrorText(args), <<>>)
    ELSE LET message == DictGet(args, "message", JStr(""))
             prefix == EnvironGet(e, JStr("ECHO_PREFIX"), "[ECHO]").value
         IN  Return(<< send_response(request_id,
                         [output |-> prefix \o " " \o PyFormat(message)]) >>)

\* lines 108-111
PingTool(request_id) == Return(<< send_response(request_id, [output |-> "pong"]) >>)

\* lines 113-118
GetEnvTool(request_id, args, e) ==
    IF ~IsDict(args) THEN Raise(AttributeErrorText(args), <<>>)
    ELSE LET var_name == DictGet(args, "name", JStr(""))
             value == EnvironGet(e, var_name,
                                 "<" \o PyFormat(var_name) \o " not set>")
         IN  IF value.raised THEN Raise(value.value, <<>>)
             ELSE Return(<< send_response(request_id,
                     [output |-> PyFormat(var_name) \o "=" \o value.value]) >>)

\* The tool router checking that the arguments are a mapping before it routes.
ToolsCall_ValidatesArguments(request_id, params, e) ==
    IF ~IsDict(params) THEN Raise(AttributeErrorText(params), <<>>)
    ELSE LET tool_name == DictGet(params, "name", JNull)
             args == DictGet(params, "arguments", JObj(EmptyDict))
         IN  IF ~IsDict(args) THEN Raise(AttributeErrorText(args), <<>>)
             ELSE IF tool_name = JStr("echo") THEN EchoTool(request_id, args, e)
             ELSE IF tool_name = JStr("ping") THEN PingTool(request_id)
             ELSE IF tool_name = JStr("get_env") THEN GetEnvTool(request_id, args, e)
             ELSE Return(<< send_error(request_id, NotFoundCode,
                              "Unknown tool: " \o PyFormat(tool_name)) >>)

\* lines 97-121
ToolsCall(request_id, params, e) ==
    IF ~IsDict(params) THEN Raise(AttributeErrorText(params), <<>>)
    ELSE LET tool_name == DictGet(params, "name", JNull)
             args == DictGet(params, "arguments", JObj(EmptyDict))
         IN  IF tool_name = JStr("echo") THEN EchoTool(request_id, args, e)
             ELSE IF tool_name = JStr("ping") THEN PingTool(request_id)
             ELSE IF tool_name = JStr("get_env") THEN GetEnvTool(request_id, args, e)
             ELSE Return(<< send_error(request_id, NotFoundCode,
                              "Unknown tool: " \o PyFormat(tool_name)) >>)

\* The body reading the method with request["method"], which raises KeyError
\* when the key is absent.
TryBody_MethodRequired(request, e) ==
    IF ~IsDict(request) THEN Raise(AttributeErrorText(request), <<>>)
    ELSE IF "method" \notin DOMAIN request.f THEN Raise("'method'", <<>>)
    ELSE LET request_id == DictGet(request, "id", JNull)
             method == request.f.method
             params == DictGet(request, "params", JObj(EmptyDict))
         IN  IF method = JStr("initialize")
               THEN Return(<< send_response(request_id, InitializeResult) >>)
             ELSE IF method = JStr("tools/call")
               THEN ToolsCall(request_id, params, e)
             ELSE IF method = JStr("shutdown")
               THEN SysExit(0, << send_response(request_id, EmptyDict) >>)
             ELSE Return(<< send_error(request_id, NotFoundCode,
                              "Method not found: " \o PyFormat(method)) >>)

\* lines 42-128: the body of the try statement of handle_request
TryBody(request, e) ==
    IF ~IsDict(request) THEN Raise(AttributeErrorText(request), <<>>)
    ELSE LET request_id == DictGet(request, "id", JNull)
             method == DictGet(request, "method", JNull)
             params == DictGet(request, "params", JObj(EmptyDict))
         IN  IF method = JStr("initialize")
               THEN Return(<< send_response(request_id, InitializeResult) >>)
             ELSE IF method = JStr("tools/call")
               THEN ToolsCall(request_id, params, e)
             ELSE IF method = JStr("shutdown")
               THEN SysExit(0, << send_response(request_id, EmptyDict) >>)
             ELSE Return(<< send_error(request_id, NotFoundCode,
                              "Method not found: " \o PyFormat(method)) >>)

\* The handler answering with a null id instead of the request's.
ExceptClause_NullId(request, r) ==
    IF r.k # "raise" THEN r
    ELSE IF ~IsDict(request) THEN Raise(AttributeErrorText(request), r.out)
    ELSE Return(Append(r.out,
                  send_error(JNull, InternalErrorCode,
                             "Internal error: " \o r.msg)))

\* The handler swallowing the exception, as `except Exception: pass` would.
ExceptClause_Silent(request, r) ==
    IF r.k # "raise" THEN r ELSE Return(r.out)

\* The handler catching SystemExit too, as `except BaseException` would.
ExceptClause_CatchesExit(request, r) ==
    IF r.k = "return" THEN r
    ELSE IF ~IsDict(request) THEN Raise(AttributeErrorText(request), r.out)
    ELSE Return(Append(r.out,
                  send_error(DictGet(request, "id", JNull), InternalErrorCode,
                             "Internal error: "
                               \o (IF r.k = "exit" THEN IntStr(r.code) ELSE r.msg))))

\* lines 130-135: `except Exception` catches what the body raises, not
\* SystemExit; request.get("id") in the handler raises again when the request
\* is no dict.
ExceptClause(request, r) ==
    IF r.k # "raise" THEN r
    ELSE IF ~IsDict(request) THEN Raise(AttributeErrorText(request), r.out)
    ELSE Return(Append(r.out,
                  send_error(DictGet(request, "id", JNull), InternalErrorCode,
                             "Internal error: " \o r.msg)))

\* lines 39-135
handle_request(request, e) == ExceptClause(request, TryBody(request, e))

\* get_env looking the variable up with os.environ.setdefault, which stores
\* the default under a name that is not set.
StateAfterHandling_SetsDefault(request, e, counter) ==
    LET params == IF IsDict(request)
                    THEN DictGet(request, "params", JObj(EmptyDict)) ELSE JNull
        args == IF IsDict(params)
                  THEN DictGet(params, "arguments", JObj(EmptyDict)) ELSE JNull
        var_name == IF IsDict(args) THEN DictGet(args, "name", JStr("")) ELSE JNull
        looksUp == /\ IsDict(request)
                   /\ DictGet(request, "method", JNull) = JStr("tools/call")
                   /\ IsDict(params)
                   /\ DictGet(params, "name", JNull) = JStr("get_env")
                   /\ IsStr(var_name)
    IN  IF looksUp /\ var_name.s \notin DOMAIN e
          THEN [env |-> [key \in DOMAIN e \cup {var_name.s} |->
                           IF key \in DOMAIN e THEN e[key]
                           ELSE "<" \o var_name.s \o " not set>"],
                message_id |-> counter]
          ELSE [env |-> e, message_id |-> counter]

\* The handler numbering the messages it handles.
StateAfterHandling_Counts(request, e, counter) ==
    [env |-> e, message_id |-> counter + 1]

\* lines 39-135: the environment and self.message_id after handle_request.
\* No line of it assigns either: os.environ.get (lines 103, 115) only reads,
\* and message_id is assigned at line 16 alone.
StateAfterHandling(request, e, counter) == [env |-> e, message_id |-> counter]

(***************************************************************************)
(* Text: fragments, lines and json.loads.                                  *)
(***************************************************************************)
Ws(n) == [k |-> "ws", d |-> JNull, i |-> 0, of |-> 0, n |-> n]
Junk(n) == [k |-> "junk", d |-> JNull, i |-> 0, of |-> 0, n |-> n]
Part(d, i, of, n) == [k |-> "part", d |-> d, i |-> i, of |-> of, n |-> n]
StrPart(d, i, of, n) == [k |-> "strpart", d |-> d, i |-> i, of |-> of, n |-> n]
NL == Ws(1)

RECURSIVE TextLen(_)
TextLen(text) == IF text = <<>> THEN 0 ELSE Head(text).n + TextLen(Tail(text))

IsSignificant(frag) == frag.k # "ws"

\* json.loads(text): the text is one document when, whitespace apart, it is
\* the parts 1..k of one document in order.  Anything else (nothing but
\* whitespace, junk, a missing part, text after the document, a line
\* terminator inside a string literal) raises JSONDecodeError.
json_loads(text) ==
    LET sig == SelectSeq(text, IsSignificant)
        isDocument ==
            /\ Len(sig) >= 1
            /\ \A j \in 1..Len(sig) :
                  /\ sig[j].k = "part"
                  /\ sig[j].d = sig[1].d
                  /\ sig[j].of = Len(sig)
                  /\ sig[j].i = j
    IN  IF isDocument THEN [ok |-> TRUE, value |-> Loads(sig[1].d)]
        ELSE [ok |-> FALSE, value |-> JNull]

\* The length of the compact JSON text of a value.
RECURSIVE JsonLen(_)
RECURSIVE MembersLen(_, _)
MembersLen(f, keys) ==
    IF keys = {} THEN 0
    ELSE LET key == CHOOSE x \in keys : TRUE
         IN  Len(key) + 3 + JsonLen(f[key])
               + (IF keys = {key} THEN 0 ELSE 1 + MembersLen(f, keys \ {key}))
JsonLen(v) ==
    CASE v.t = "null" -> 4
      [] v.t = "str" -> Len(v.s) + 2
      [] v.t = "num" -> Len(IntStr(v.n))
      [] v.t = "real" -> Len(IntStr(v.m)) + 1 + Len(IntStr(v.x))
      [] v.t = "arr" -> 2
      [] v.t = "obj" -> 2 + MembersLen(v.f, DOMAIN v.f)

(***************************************************************************)
(* The environments and the input lines of the model.                      *)
(***************************************************************************)
Envs ==
    { EmptyDict,
      [ECHO_PREFIX |-> ">>"],
      [ECHO_PREFIX |-> "", HOME |-> "/root"] }

Request(id, method) == JObj([id |-> id, method |-> JStr(method)])
ToolCall(id, name, args) ==
    JObj([id |-> id, method |-> JStr("tools/call"),
          params |-> JObj([name |-> JStr(name), arguments |-> args])])

\* {"id":1,"method":"initialize"}
ReqInitialize == Request(JNum(1), "initialize")
\* {"id":2,"method":"tools/call","params":{"name":"echo","arguments":{"message":"hi"}}}
ReqEcho == ToolCall(JNum(2), "echo", JObj([message |-> JStr("hi")]))
\* {"id":3,"method":"shutdown"}
ReqShutdown == Request(JNum(3), "shutdown")
\* {"id":"a","method":"foo"}
ReqUnknown == Request(JStr("a"), "foo")
\* {"id":4,"method":"tools/call","params":null}
ReqBadParams == JObj([id |-> JNum(4), method |-> JStr("tools/call"), params |-> JNull])
\* {"method":"tools/call","params":{"name":"ping"}}
ReqNoId == JObj([method |-> JStr("tools/call"), params |-> JObj([name |-> JStr("ping")])])

\* The line that holds the whole text of document d.
Full(d) == << Part(d, 1, 1, JsonLen(d)), NL >>

\* The text of document d on two lines, the first `cut` characters long.
FirstOf2(d, cut) == << Part(d, 1, 2, cut), NL >>
SecondOf2(d, cut) == << Part(d, 2, 2, JsonLen(d) - cut), NL >>

Lines ==
    { Full(ReqInitialize),
      Full(ReqEcho),
      Full(ReqShutdown),
      Full(ReqUnknown),
      Full(ReqBadParams),
      Full(ReqNoId),
      Full(JArr),                                     \* []
      << NL >>,                                       \* an empty line
      << Junk(7), NL >>,                              \* garbage
      << Junk(Ceiling - 1), NL >>,                    \* Ceiling characters
      << Junk(Ceiling), NL >>,                        \* Ceiling + 1 characters
      FirstOf2(ReqEcho, 30),                          \* {"id":2,"method":"tools/call",
      SecondOf2(ReqEcho, 30),                         \* "params":{...}}
      << Part(ReqEcho, 1, 2, 30), Ws(Ceiling), NL >>, \* the first, then blanks
      << Part(ReqUnknown, 1, 3, 1), NL >>,            \* {
      << Part(ReqUnknown, 2, 3, 23), NL >>,           \* "id":"a","method":"foo"
      << Part(ReqUnknown, 3, 3, 1), NL >>,            \* }
      << StrPart(ReqInitialize, 1, 2, 10), NL >>,     \* {"id":1,"m
      << StrPart(ReqInitialize, 2, 2, 20), NL >> }    \* ethod":"initialize"}

(***************************************************************************)
(* The program.                                                            *)
(***************************************************************************)
Init ==
    /\ pc = "reading"
    /\ buffer = <<>>
    /\ output = <<>>
    /\ stderr = << "Python Echo MCP Server started" >>
    /\ exitStatus = NoStatus
    /\ message_id = 0
    /\ env \in Envs
    /\ input = <<>>
    /\ dispatched = <<>>
    /\ eof = FALSE

\* The line replacing the buffer instead of being appended to it.
Accumulate_Overwrites(buf, line) == line

\* line 152: buffer += line
Accumulate(buf, line) == buf \o line

\* The handler printing the parse error without clearing the buffer.
OnDecodeError_KeepsBuffer(text) ==
    IF TextLen(text) > Ceiling
      THEN [buffer |-> text, out |-> << ParseErrorResponse >>]
      ELSE [buffer |-> text, out |-> <<>>]

\* The handler clearing the buffer whenever the text does not parse.
OnDecodeError_DropsBuffer(text) ==
    IF TextLen(text) > Ceiling
      THEN [buffer |-> <<>>, out |-> << ParseErrorResponse >>]
      ELSE [buffer |-> <<>>, out |-> <<>>]

\* lines 159-170: the handler of JSONDecodeError, given the text that did not
\* parse: what it leaves in the buffer and what it prints.
OnDecodeError(text) ==
    IF TextLen(text) > Ceiling
      THEN [buffer |-> <<>>, out |-> << ParseErrorResponse >>]
      ELSE [buffer |-> text, out |-> <<>>]

\* lines 148-170: one iteration of the loop of main() on a line that is not
\* empty, with the handling of what handle_request raises (lines 172-176).
ReadLine(line) ==
    /\ pc = "reading"
    /\ input' = Append(input, [line |-> line, buf |-> buffer,
                               nout |-> Len(output), ndisp |-> Len(dispatched)])
    /\ LET text == Accumulate(buffer, line)
           p == json_loads(text)
           h == handle_request(p.value, env)
           f == OnDecodeError(text)
           after == StateAfterHandling(p.value, env, message_id)
       IN  IF p.ok
             THEN /\ buffer' = <<>>
                  /\ env' = after.env
                  /\ message_id' = after.message_id
                  /\ dispatched' = Append(dispatched, p.value)
                  /\ output' = output \o h.out
                  /\ pc' = IF h.k = "return" THEN "reading" ELSE "exited"
                  /\ exitStatus' = CASE h.k = "return" -> exitStatus
                                     [] h.k = "exit" -> h.code
                                     [] h.k = "raise" -> 1
                  /\ stderr' = IF h.k = "raise"
                                 THEN Append(stderr, "Server error: " \o h.msg)
                                 ELSE stderr
             ELSE /\ buffer' = f.buffer
                  /\ output' = output \o f.out
                  /\ UNCHANGED <<dispatched, pc, exitStatus, stderr, env,
                                 message_id>>
    /\ UNCHANGED eof

\* lines 148-150: readline() returns the empty string; main() returns and the
\* interpreter exits with status 0.
\* The reader reporting text left in the buffer when the stream ends.
OutputAtEOF_ReportsPartial(buf) ==
    IF buf = <<>> THEN <<>> ELSE << ParseErrorResponse >>

\* lines 148-150: `if not line: break` leaves the loop and main() returns;
\* nothing is printed, whatever the buffer holds.
OutputAtEOF(buf) == <<>>

ReadEOF ==
    /\ pc = "reading"
    /\ pc' = "exited"
    /\ exitStatus' = 0
    /\ eof' = TRUE
    /\ output' = output \o OutputAtEOF(buffer)
    /\ UNCHANGED <<buffer, stderr, message_id, env, input, dispatched>>

\* readline() returns one of the lines of the model.
ReadSomeLine == Len(input) < MaxLines /\ \E line \in Lines : ReadLine(line)

Next == ReadSomeLine \/ ReadEOF

Spec == Init /\ [][Next]_vars

\* The input stream is finite and the process is always scheduled: readline()
\* returns, with the next line or with the end of the stream.
FairSpec == Spec /\ WF_vars(Next)

(***************************************************************************)
(* The dispatcher on every shape of request: one line holding a document   *)
(* of Documents is read by the server just started, then one more line,    *)
(* FollowUp.  Absent stands for a key the object does not have.            *)
(***************************************************************************)
Absent == [t |-> "absent"]

\* The dict of the members of f that are not Absent.
MkObj(f) == JObj([key \in {x \in DOMAIN f : f[x] # Absent} |-> f[key]])

IdValues == { Absent, JNull, JNum(1), JStr("a") }
MethodValues ==
    { Absent, JStr("initialize"), JStr("tools/call"), JStr("shutdown"),
      JStr("foo"), JNum(5) }
ToolNames ==
    { Absent, JStr("echo"), JStr("ping"), JStr("get_env"), JStr("nope"), JNum(5) }
MessageValues == { Absent, JStr("hi"), JStr(""), JNum(5) }
VariableNames == { Absent, JStr("HOME"), JStr("NOPE"), JNum(5) }
ArgumentsValues ==
    { Absent, JNull, JStr("x") }
      \cup { MkObj([message |-> m, name |-> n]) :
                m \in MessageValues, n \in VariableNames }
ParamsValues ==
    { Absent, JNull, JArr }
      \cup { MkObj([name |-> n, arguments |-> a]) :
                n \in ToolNames, a \in ArgumentsValues }
Requests ==
    { MkObj([id |-> i, method |-> m, params |-> p]) :
        i \in IdValues, m \in MethodValues, p \in ParamsValues }
Documents == Requests \cup { JNull, JArr, JNum(5), JStr("x") }

FollowUp == Full(ReqNoId)

ReadDocument == input = <<>> /\ \E d \in Documents : ReadLine(Full(d))

ReadFollowUp == Len(input) = 1 /\ ReadLine(FollowUp)

NextDispatch == ReadDocument \/ ReadFollowUp \/ ReadEOF

SpecDispatch == Init /\ [][NextDispatch]_vars

(***************************************************************************)
(* A third specification: one request whose id ranges over JSON values of  *)
(* every kind, then the end of the stream.                                 *)
(***************************************************************************)
WireIds ==
    IdValues \cup
      { JNum(0), JNum(-7), JStr(""), JArr, JObj(EmptyDict),
        JObj([a |-> JNull]),
        JReal(15, -1),       \* 15e-1
        JReal(1, 2),         \* 1e2
        JReal(1, 400),       \* 1e400
        JReal(1, -400) }     \* 1e-400

IdParams ==
    { Absent, JNull,
      MkObj([name |-> JStr("ping")]),
      MkObj([name |-> JStr("echo"), arguments |-> JObj([message |-> JStr("hi")])]),
      MkObj([name |-> JStr("get_env"), arguments |-> JObj([name |-> JStr("HOME")])]),
      MkObj([name |-> JStr("nope")]) }

IdRequests ==
    { MkObj([id |-> i, method |-> m, params |-> p]) :
        i \in WireIds, m \in MethodValues, p \in IdParams }

ReadIdRequest == input = <<>> /\ \E d \in IdRequests : ReadLine(Full(d))

NextIds == ReadIdRequest \/ ReadEOF

SpecIds == Init /\ [][NextIds]_vars

(***************************************************************************)
(* Reading the history.                                                    *)
(***************************************************************************)
NRead == Len(input)

\* The text json.loads was given at read i.
TextAt(i) == input[i].buf \o input[i].line

\* The lines of reads s..t, concatenated.
RECURSIVE Join(_, _)
Join(s, t) == IF s > t THEN <<>> ELSE input[s].line \o Join(s + 1, t)

Last(seq) == seq[Len(seq)]

HasId(response) == "id" \in DOMAIN response
IsSuccess(response) == "result" \in DOMAIN response /\ "error" \notin DOMAIN response
IsError(response) == "error" \in DOMAIN response /\ "result" \notin DOMAIN response

\* What the dispatcher has printed: main()'s own parse-error responses have
\* no "id" key.
DispatcherOutput == SelectSeq(output, HasId)

\* The parsed messages that are JSON objects.
DictsDispatched == SelectSeq(dispatched, IsDict)

CarriesId(message) == IsDict(message) /\ "id" \in DOMAIN message.f

MethodIs(message, name) ==
    IsDict(message) /\ DictGet(message, "method", JNull) = JStr(name)

\* The line holds, by itself, a request that carries an id.
IsRequestLine(line) ==
    json_loads(line).ok /\ CarriesId(json_loads(line).value)

Answered(id) == \E j \in 1..Len(output) : HasId(output[j]) /\ output[j].id = id

(***************************************************************************)
(* C1.  The j-th response the dispatcher has written answers the j-th      *)
(* parsed message: it is a success or an error, and when the message       *)
(* carries an id it carries that id.  So every parsed message with an id   *)
(* has exactly one response, and the responses are in the order of the     *)
(* parses.                                                                 *)
(***************************************************************************)
C1_OneResponsePerMessageInOrder ==
    /\ Len(DispatcherOutput) = Len(DictsDispatched)
    /\ \A j \in 1..Len(DictsDispatched) :
          /\ IsSuccess(DispatcherOutput[j]) \/ IsError(DispatcherOutput[j])
          /\ CarriesId(DictsDispatched[j])
                => DispatcherOutput[j].id = DictsDispatched[j].f.id

\* A parse-error response, then two requests with different ids, each
\* answered.
C1_Witness ==
    /\ Len(output) = 3
    /\ output[1] = ParseErrorResponse
    /\ dispatched = << ReqBadParams, ReqUnknown >>
    /\ output[2].id = JNum(4)
    /\ output[3].id = JStr("a")

(***************************************************************************)
(* C2.  When the input has ended, every line that held a complete request  *)
(* with an id has been answered with a response that carries its id.  (The *)
(* exception for a reset buffer from which no valid request could be       *)
(* recovered never covers such a line: the line is a valid request.)       *)
(***************************************************************************)
C2_EveryRequestSentIsAnswered ==
    eof => \A i \in 1..NRead :
              IsRequestLine(input[i].line)
                => Answered(json_loads(input[i].line).value.f.id)

(***************************************************************************)
(* C3.  The process ends only when the input ends or a shutdown request    *)
(* has been handled: whatever document was parsed, it does not end with    *)
(* the status of a fault.                                                  *)
(***************************************************************************)
C3_OnlyEofOrShutdownEndsTheProcess ==
    pc = "exited" =>
        /\ exitStatus = 0
        /\ eof \/ (dispatched # <<>> /\ MethodIs(Last(dispatched), "shutdown"))

(***************************************************************************)
(* The state after read i: the state before read i + 1, or the present     *)
(* state when read i is the last.                                          *)
(***************************************************************************)
BufAfter(i) == IF i < NRead THEN input[i + 1].buf ELSE buffer
OutAfter(i) == IF i < NRead THEN input[i + 1].nout ELSE Len(output)
DispAfter(i) == IF i < NRead THEN input[i + 1].ndisp ELSE Len(dispatched)

DecodeFails(i) == ~json_loads(TextAt(i)).ok

\* The read at which the text in the buffer after read i began.
RECURSIVE StartOf(_)
StartOf(i) == IF input[i].buf = <<>> THEN i ELSE StartOf(i - 1)

(***************************************************************************)
(* C4.  A read whose accumulated text does not parse and is longer than    *)
(* 10000 characters leaves the buffer empty, prints exactly one response,  *)
(* the parse error (code -32700, message "Parse error", no id), and        *)
(* dispatches nothing; a line read next that holds a whole document is     *)
(* parsed by itself and dispatched.                                        *)
(***************************************************************************)
C4_CeilingResetsAndReportsOnce ==
    \A i \in 1..NRead :
        (DecodeFails(i) /\ TextLen(TextAt(i)) > 10000) =>
            /\ BufAfter(i) = <<>>
            /\ OutAfter(i) = input[i].nout + 1
            /\ LET r == output[OutAfter(i)]
               IN  /\ IsError(r)
                   /\ r.error.code = -32700
                   /\ r.error.message = "Parse error"
                   /\ HasId(r) => r.id = JNull
            /\ DispAfter(i) = input[i].ndisp
            /\ (i < NRead /\ json_loads(input[i + 1].line).ok) =>
                   /\ DispAfter(i + 1) = input[i + 1].ndisp + 1
                   /\ dispatched[DispAfter(i + 1)] = json_loads(input[i + 1].line).value

\* Ceiling characters are kept, the next line takes the text over the
\* ceiling, and the request after that is answered.
C4_Witness ==
    /\ NRead = 3
    /\ input[1].line = << Junk(9999), NL >>
    /\ input[2].buf = input[1].line
    /\ input[2].line = Full(ReqShutdown)
    /\ input[3].line = Full(ReqInitialize)
    /\ dispatched = << ReqInitialize >>
    /\ Len(output) = 2
    /\ output[1] = ParseErrorResponse
    /\ IsSuccess(output[2])

(***************************************************************************)
(* C5, as stated.  A document whose text arrives on the lines of reads     *)
(* s..t, the buffer being empty before read s: nothing is printed before   *)
(* read t, and read t dispatches the document, once, and leaves the buffer *)
(* empty.                                                                  *)
(***************************************************************************)
ArrivesOver(s, t) ==
    /\ s < t
    /\ input[s].buf = <<>>
    /\ json_loads(Join(s, t)).ok
    /\ ~json_loads(Join(s + 1, t)).ok
    /\ ~json_loads(Join(s, t - 1)).ok

DispatchedOnceAt(s, t) ==
    /\ input[t].nout = input[s].nout
    /\ input[t].ndisp = input[s].ndisp
    /\ DispAfter(t) = input[s].ndisp + 1
    /\ dispatched[DispAfter(t)] = json_loads(Join(s, t)).value
    /\ BufAfter(t) = <<>>

C5_SplitRequestIsDispatchedOnce ==
    \A s \in 1..NRead : \A t \in 1..NRead :
        ArrivesOver(s, t) => DispatchedOnceAt(s, t)

(***************************************************************************)
(* C5, amended.  The same, for a document whose lines before the last hold *)
(* at most 10000 characters together.                                      *)
(***************************************************************************)
C5_SplitRequestBelowCeilingIsDispatchedOnce ==
    \A s \in 1..NRead : \A t \in 1..NRead :
        (ArrivesOver(s, t) /\ TextLen(Join(s, t - 1)) <= 10000)
            => DispatchedOnceAt(s, t)

\* The echo request on two lines, answered after the second.
C5_Witness ==
    /\ NRead = 2
    /\ input[1].line = FirstOf2(ReqEcho, 30)
    /\ input[2].line = SecondOf2(ReqEcho, 30)
    /\ dispatched = << ReqEcho >>
    /\ Len(output) = 1
    /\ output[1].id = JNum(2)
    /\ buffer = <<>>

(***************************************************************************)
(* C6.  A parsed shutdown request is the last message dispatched: one      *)
(* success response with an empty result and the request's id is printed,  *)
(* the process has exited with status 0, and the read that parsed it is    *)
(* the last read; the response is the last output.                         *)
(***************************************************************************)
C6_ShutdownAnswersThenExits ==
    \A j \in 1..Len(dispatched) :
        MethodIs(dispatched[j], "shutdown") =>
            /\ j = Len(dispatched)
            /\ pc = "exited"
            /\ exitStatus = 0
            /\ ~eof
            /\ input[NRead].ndisp = j - 1
            /\ Len(output) = input[NRead].nout + 1
            /\ IsSuccess(Last(output))
            /\ Last(output).result = <<>>
            /\ Last(output).id = DictGet(dispatched[j], "id", JNull)

\* A request is answered, then the shutdown request.
C6_Witness ==
    /\ dispatched = << ReqEcho, ReqShutdown >>
    /\ Len(output) = 2
    /\ output[2] = [jsonrpc |-> "2.0", id |-> JNum(3), result |-> <<>>]
    /\ pc = "exited"
    /\ exitStatus = 0

(***************************************************************************)
(* C7.  A read whose accumulated text does not parse and is shorter than   *)
(* 10000 characters keeps that text in the buffer, which is the            *)
(* concatenation of the lines read since the buffer was last empty, prints *)
(* nothing and dispatches nothing; and every response main() prints by     *)
(* itself comes from a read whose text did not parse and was longer than   *)
(* 10000 characters.                                                       *)
(***************************************************************************)
C7_BelowCeilingKeepsBufferSilently ==
    /\ \A i \in 1..NRead :
          (DecodeFails(i) /\ TextLen(TextAt(i)) < 10000) =>
              /\ BufAfter(i) = input[i].buf \o input[i].line
              /\ BufAfter(i) = Join(StartOf(i), i)
              /\ OutAfter(i) = input[i].nout
              /\ DispAfter(i) = input[i].ndisp
    /\ \A j \in 1..Len(output) :
          ~HasId(output[j]) =>
              \E i \in 1..NRead :
                  /\ DecodeFails(i)
                  /\ TextLen(TextAt(i)) > 10000
                  /\ input[i].nout = j - 1

\* Two lines that do not parse are both in the buffer and nothing is printed.
C7_Witness ==
    /\ NRead = 2
    /\ input[1].line = FirstOf2(ReqEcho, 30)
    /\ input[2].line = Full(ReqInitialize)
    /\ buffer = FirstOf2(ReqEcho, 30) \o Full(ReqInitialize)
    /\ output = <<>>
    /\ dispatched = <<>>

(***************************************************************************)
(* The dispatcher claims are read off the first message of SpecDispatch.   *)
(***************************************************************************)
FirstId == DictGet(dispatched[1], "id", JNull)
FirstMethod == DictGet(dispatched[1], "method", JNull)
FirstParams == DictGet(dispatched[1], "params", JObj(<<>>))
FirstTool == DictGet(FirstParams, "name", JNull)
FirstArgs == DictGet(FirstParams, "arguments", JObj(<<>>))

IsToolsCall ==
    /\ NRead >= 1
    /\ IsDict(dispatched[1])
    /\ FirstMethod = JStr("tools/call")

\* The first message got exactly one response.
OneResponse == OutAfter(1) = 1 /\ HasId(output[1]) /\ output[1].id = FirstId

\* After the first message the process is back at the head of its loop, and
\* it answers the message of the following line.
KeepsServing ==
    /\ (NRead = 1 /\ ~eof) => pc = "reading"
    /\ exitStatus \in {NoStatus, 0}
    /\ NRead = 2 =>
          /\ Len(output) = 2
          /\ output[2] = [jsonrpc |-> "2.0", id |-> JNull,
                           result |-> [output |-> "pong"]]

(***************************************************************************)
(* C8.  A parsed object whose method is none of initialize, tools/call and *)
(* shutdown (or is absent) gets exactly one response, an error with code   *)
(* -32601 and the request's id; a tools/call whose params are a mapping    *)
(* with a name that is none of echo, ping and get_env gets exactly one     *)
(* response, an error with code -32601, the request's id and, for a name   *)
(* that is a string, the message "Unknown tool: " followed by the name.    *)
(* In both cases the process goes on to serve the next message.            *)
(***************************************************************************)
C8_RoutingFailuresAreAnswered ==
    (NRead >= 1 /\ IsDict(dispatched[1])) =>
        /\ FirstMethod \notin {JStr("initialize"), JStr("tools/call"), JStr("shutdown")}
              => /\ OneResponse
                 /\ IsError(output[1])
                 /\ output[1].error.code = -32601
                 /\ KeepsServing
        /\ ( /\ FirstMethod = JStr("tools/call")
             /\ IsDict(FirstParams)
             /\ FirstTool \notin {JStr("echo"), JStr("ping"), JStr("get_env")} )
              => /\ OneResponse
                 /\ IsError(output[1])
                 /\ output[1].error.code = -32601
                 /\ IsStr(FirstTool)
                       => output[1].error.message = "Unknown tool: " \o FirstTool.s
                 /\ KeepsServing

\* A request with no method field is answered -32601, and the message of
\* the next line is answered too.
C8_Witness ==
    /\ NRead = 2
    /\ dispatched[1] = JObj([id |-> JStr("a")])
    /\ output[1] = [jsonrpc |-> "2.0", id |-> JStr("a"),
                     error |-> [code |-> -32601,
                                message |-> "Method not found: None"]]
    /\ output[2].result.output = "pong"

(***************************************************************************)
(* C9.  A parsed object whose handling fails (tools/call with params       *)
(* present and not a mapping; echo or get_env with arguments present and   *)
(* not a mapping; get_env with a name that is not a string) gets exactly   *)
(* one response: an error with code -32603, a message that is              *)
(* "Internal error: " followed by the description of the fault, and the    *)
(* request's id.  No other parsed object is answered with -32603.          *)
(***************************************************************************)
FaultTexts ==
    { "'NoneType' object has no attribute 'get'",
      "'list' object has no attribute 'get'",
      "'str' object has no attribute 'get'",
      "str expected, not int" }

HandlingFails ==
    /\ IsToolsCall
    /\ \/ ~IsDict(FirstParams)
       \/ /\ FirstTool \in {JStr("echo"), JStr("get_env")}
          /\ ~IsDict(FirstArgs)
       \/ /\ FirstTool = JStr("get_env")
          /\ IsDict(FirstArgs)
          /\ ~IsStr(DictGet(FirstArgs, "name", JStr("")))

C9_InternalFaultsAreAnswered ==
    (NRead >= 1 /\ IsDict(dispatched[1])) =>
        /\ HandlingFails =>
              /\ OneResponse
              /\ IsError(output[1])
              /\ output[1].error.code = -32603
              /\ \E text \in FaultTexts :
                    output[1].error.message = "Internal error: " \o text
        /\ ~HandlingFails =>
              \A j \in 1..Len(output) :
                  IsError(output[j]) => output[j].error.code # -32603

\* get_env with the name 5.
C9_Witness ==
    /\ NRead = 1
    /\ IsToolsCall
    /\ IsDict(FirstParams)
    /\ FirstTool = JStr("get_env")
    /\ IsDict(FirstArgs)
    /\ DictGet(FirstArgs, "name", JStr("")) = JNum(5)
    /\ output = << [jsonrpc |-> "2.0", id |-> JNum(1),
                     error |-> [code |-> -32603,
                                message |-> "Internal error: str expected, not int"]] >>

(***************************************************************************)
(* C10.  tools/call of echo with arguments absent or a mapping whose       *)
(* message M is a string or absent (then M is ""): the response is a       *)
(* success whose output is the prefix, a space and M, the prefix being the *)
(* value of ECHO_PREFIX when the environment sets it and "[ECHO]" when it  *)
(* does not.                                                               *)
(***************************************************************************)
EchoMessage == DictGet(FirstArgs, "message", JStr(""))

IsEchoCall ==
    /\ IsToolsCall
    /\ IsDict(FirstParams)
    /\ FirstTool = JStr("echo")
    /\ IsDict(FirstArgs)
    /\ IsStr(EchoMessage)

C10_EchoPrependsPrefix ==
    IsEchoCall =>
        /\ OneResponse
        /\ IsSuccess(output[1])
        /\ output[1].result =
              [output |-> (IF "ECHO_PREFIX" \in DOMAIN env
                             THEN env["ECHO_PREFIX"] \o " "
                             ELSE "[ECHO] ") \o EchoMessage.s]

\* The override is set and the message is "hi".
C10_Witness ==
    /\ IsEchoCall
    /\ env = [ECHO_PREFIX |-> ">>"]
    /\ FirstArgs = JObj([message |-> JStr("hi")])
    /\ output[1] = [jsonrpc |-> "2.0", id |-> FirstId,
                     result |-> [output |-> ">> hi"]]

(***************************************************************************)
(* C11.  tools/call of get_env with arguments absent or a mapping whose    *)
(* name K is a string or absent (then K is ""): the response is a success  *)
(* whose output is K, "=" and the value of K in the environment, or        *)
(* K, "=<", K and " not set>" when the environment does not set K; and no  *)
(* step changes the environment.                                           *)
(***************************************************************************)
VarName == DictGet(FirstArgs, "name", JStr(""))

IsGetEnvCall ==
    /\ IsToolsCall
    /\ IsDict(FirstParams)
    /\ FirstTool = JStr("get_env")
    /\ IsDict(FirstArgs)
    /\ IsStr(VarName)

GetEnvAnswer ==
    IsGetEnvCall =>
        /\ OneResponse
        /\ IsSuccess(output[1])
        /\ output[1].result =
              [output |-> VarName.s \o "=" \o
                  (IF VarName.s \in DOMAIN env
                     THEN env[VarName.s]
                     ELSE "<" \o VarName.s \o " not set>")]

C11_GetEnvReportsVariable == [](GetEnvAnswer) /\ [][env' = env]_vars

\* The variable HOME is set and is asked for.
C11_Witness ==
    /\ IsGetEnvCall
    /\ env = [ECHO_PREFIX |-> "", HOME |-> "/root"]
    /\ VarName = JStr("HOME")
    /\ output[1] = [jsonrpc |-> "2.0", id |-> FirstId,
                     result |-> [output |-> "HOME=/root"]]

(***************************************************************************)
(* C12.  tools/call of ping is answered with one success response whose    *)
(* output is "pong", whatever the arguments are: absent, an empty mapping, *)
(* any mapping, or a value that is not a mapping.                          *)
(***************************************************************************)
IsPingCall ==
    /\ IsToolsCall
    /\ IsDict(FirstParams)
    /\ FirstTool = JStr("ping")

C12_PingAnswersPong ==
    IsPingCall =>
        /\ OneResponse
        /\ output[1] = [jsonrpc |-> "2.0", id |-> FirstId,
                         result |-> [output |-> "pong"]]

\* ping called with arguments that are a string, not a mapping.
C12_Witness ==
    /\ IsPingCall
    /\ FirstArgs = JStr("x")
    /\ output[1].result = [output |-> "pong"]

(***************************************************************************)
(* C13.  Every read that dispatches an initialize request writes exactly   *)
(* one response: a success with the request's id whose result lists three  *)
(* tool descriptors named echo, ping and get_env, in that order; the       *)
(* result is the same at every initialize of the run, whatever was handled *)
(* before it; and the step leaves the message counter and the environment  *)
(* as they were.                                                           *)
(***************************************************************************)
\* Read i parsed a document and it is an initialize request.
DispatchesInitialize(i) ==
    /\ DispAfter(i) = input[i].ndisp + 1
    /\ MethodIs(dispatched[DispAfter(i)], "initialize")

ToolNamesOf(response) ==
    [k \in 1..Len(response.result.capabilities.tools.available) |->
        response.result.capabilities.tools.available[k].name]

InitializeAnswer(i) ==
    /\ OutAfter(i) = input[i].nout + 1
    /\ LET response == output[OutAfter(i)]
       IN  /\ HasId(response)
           /\ response.id = DictGet(dispatched[DispAfter(i)], "id", JNull)
           /\ IsSuccess(response)
           /\ ToolNamesOf(response) = <<"echo", "ping", "get_env">>

InitializeAnswersAgree ==
    \A i, j \in 1..NRead :
        DispatchesInitialize(i) /\ DispatchesInitialize(j) =>
            output[OutAfter(i)].result = output[OutAfter(j)].result

InitializeKeepsState ==
    (/\ Len(dispatched') = Len(dispatched) + 1
     /\ MethodIs(Last(dispatched'), "initialize"))
        => /\ message_id' = message_id
           /\ env' = env

C13_InitializeListsThreeTools ==
    /\ [](\A i \in 1..NRead : DispatchesInitialize(i) => InitializeAnswer(i))
    /\ [](InitializeAnswersAgree)
    /\ [][InitializeKeepsState]_vars

\* initialize handled twice with another request between them.
C13_Witness ==
    /\ NRead = 3
    /\ DispatchesInitialize(1)
    /\ ~DispatchesInitialize(2) /\ DispAfter(2) = 2
    /\ DispatchesInitialize(3)
    /\ InitializeAnswer(3)
    /\ output[3].result = output[1].result

(***************************************************************************)
(* C14.  The step that meets the end of the input stream writes nothing to *)
(* the output or to the error stream, whatever the buffer holds, and ends  *)
(* the process with exit status 0; since it is the last step, the output   *)
(* at the end of the stream stays what it was at the last read.            *)
(***************************************************************************)
MeetsEOF == ~eof /\ eof'

StopsSilently ==
    MeetsEOF => /\ output' = output
                /\ stderr' = stderr
                /\ dispatched' = dispatched
                /\ pc' = "exited"
                /\ exitStatus' = 0

C14_EndOfStreamStopsSilently ==
    /\ [][StopsSilently]_vars
    /\ [](eof => pc = "exited" /\ exitStatus = 0)

\* The stream ended with half a request in the buffer and nothing was written.
C14_Witness ==
    /\ eof
    /\ buffer = << Part(ReqEcho, 1, 2, 30), NL >>
    /\ output = <<>>
    /\ Len(stderr) = 1
    /\ exitStatus = 0

(***************************************************************************)
(* C15.  The request that was read gets exactly one response from the      *)
(* dispatcher, and the id of the response is the id the request was sent   *)
(* with, whatever JSON value it is; null when the request has no id.       *)
(***************************************************************************)
\* The JSON document whose text read i completed, as the peer wrote it.
WireDocument(i) == input[i].line[1].d

WireId(i) == DictGet(WireDocument(i), "id", JNull)

C15_ResponseCarriesTheInboundId ==
    (NRead = 1 /\ Len(dispatched) = 1) =>
        /\ Len(output) = 1
        /\ HasId(output[1])
        /\ output[1].id = WireId(1)

(***************************************************************************)
(* C16.  Whenever a line is read, the dispatcher has written as many       *)
(* responses as messages have been dispatched, and the k-th of them        *)
(* answers the k-th message: each response is written before the next line *)
(* is read, in the order of the messages.                                  *)
(***************************************************************************)
\* The dispatcher's responses that were on the output when line i was read.
WrittenBefore(i) == SelectSeq(SubSeq(output, 1, input[i].nout), HasId)

SequentialAt(i) ==
    /\ Len(WrittenBefore(i)) = input[i].ndisp
    /\ \A k \in 1..input[i].ndisp :
          WrittenBefore(i)[k].id = DictGet(dispatched[k], "id", JNull)

C16_ResponseWrittenBeforeNextRead == \A i \in 1..NRead : SequentialAt(i)

\* The third line is read after two messages were dispatched and answered.
C16_Witness ==
    /\ NRead = 3
    /\ input[3].ndisp = 2
    /\ input[3].nout = 2
    /\ output[1].id # output[2].id
    /\ SequentialAt(3)

(***************************************************************************)
(* C17.  Two reads of one run that dispatch the same message write the     *)
(* same responses, whatever was handled between and before them (the       *)
(* environment is the same all through a run), and the message counter     *)
(* keeps its initial value 0.                                              *)
(***************************************************************************)
Dispatches(i) == DispAfter(i) = input[i].ndisp + 1

MessageOf(i) == dispatched[DispAfter(i)]

\* What was written while line i was handled.
WrittenAt(i) == SubSeq(output, input[i].nout + 1, OutAfter(i))

SameMessageSameResponse ==
    \A i, j \in 1..NRead :
        (Dispatches(i) /\ Dispatches(j) /\ MessageOf(i) = MessageOf(j))
            => WrittenAt(i) = WrittenAt(j)

BufferAfterRead(i) ==
    IF DecodeFails(i) /\ TextLen(TextAt(i)) <= Ceiling
      THEN BufAfter(i) = TextAt(i)
      ELSE BufAfter(i) = <<>>

C18_BufferWithinCeiling ==
    /\ TextLen(buffer) <= Ceiling
    /\ \A i \in 1..NRead :
          /\ BufferAfterRead(i)
          /\ TextLen(input[i].buf) <= Ceiling

\* Exactly 10,000 characters are kept, and one more resets the buffer.
C18_Witness ==
    /\ NRead = 2
    /\ TextLen(input[2].buf) = Ceiling
    /\ TextLen(TextAt(2)) > Ceiling
    /\ buffer = <<>>
    /\ pc = "reading"

(***************************************************************************)
(* C19.  After any sequence of reads there are at most as many output      *)
(* lines as lines read; each read writes at most one output line, and it   *)
(* writes one exactly when it leaves the buffer empty (a line is never     *)
(* empty, so the buffer is empty after a read only by a reset).            *)
(***************************************************************************)
OneOutputIffReset(i) ==
    /\ Len(WrittenAt(i)) <= 1
    /\ Len(WrittenAt(i)) = 1 <=> BufAfter(i) = <<>>

C19_OutputIffBufferReset ==
    /\ Len(output) <= NRead
    /\ \A i \in 1..NRead : OneOutputIffReset(i)

(***************************************************************************)
(* C20.  Every run over a finite input ends, and the process has ended     *)
(* exactly when the end of the stream was met or the last message          *)
(* dispatched is a shutdown request.                                       *)
(***************************************************************************)
EndedByShutdownOrEOF ==
    pc = "exited"
        <=> (eof \/ (dispatched # <<>> /\ MethodIs(Last(dispatched), "shutdown")))

C20_TerminatesAtShutdownOrEndOfStream ==
    /\ <>(pc = "exited")
    /\ [](EndedByShutdownOrEOF)

====
